---- MODULE Spec2Model ----
(***************************************************************************)
(* Model of the preprocessing and beat-annotation matching pipeline of     *)
(* cpsc2020:                                                               *)
(*   signal_processing/ecg_preprocess.py  preprocess_signal,               *)
(*                                        parallel_preprocess_signal       *)
(*   phase_one_legacy/data_reader.py      CPSC2020Reader._ann_to_beat_ann, *)
(*                                        _ann_to_beat_ann_epoch_v1 / _v3  *)
(*                                        CPSC2020Reader.load_beat_ann     *)
(*                                                                         *)
(* Conventions.                                                            *)
(*  - Sampling rates are carried in tenths of a hertz (fs10 = 10 * fs), so *)
(*    that sub-hertz rates, for which a window is a handful of samples,    *)
(*    are expressible with integers.  Durations of the configuration stay  *)
(*    in seconds, as in the source.                                        *)
(*  - A signal is a sequence of runs.  A run [lo, hi, stages, blo, bhi]    *)
(*    stands for the samples lo .. hi-1 of a buffer; stages is the list of *)
(*    processing stages that produced them and blo .. bhi the raw range of *)
(*    the buffer they were computed in (a filtered sample depends on the   *)
(*    buffer it was filtered in).  Raw samples have stages = <<>> and      *)
(*    blo = bhi = 0, and lo, hi are then indices into the raw signal.      *)
(*  - numpy integer arrays are sequences.                                  *)
(***************************************************************************)
EXTENDS Integers, Sequences, FiniteSets, TLC

VARIABLES
    fn,        \* the entry point that was called
    args,      \* its arguments (never assigned by the code)
    pc,        \* position of the coordinating process
    tasks,     \* the iterable handed to pool.starmap
    status,    \* per task: "pending", "running" or "done"
    result,    \* per finished task: what the worker returned
    finished,  \* how many tasks have finished, and whether one overtook an earlier one
    poolError, \* a worker raised (the first exception is kept by the pool)
    poolStarted, \* mp.Pool(...) was entered
    ret,       \* the value returned to the caller
    files,     \* the files on disk: a function path -> content
    heap       \* the objects of the calling process: name -> current value

vars == <<fn, args, pc, tasks, status, result, finished, poolError,
          poolStarted, ret, files, heap>>

(***************************************************************************)
(* Bounds of the model.                                                    *)
(***************************************************************************)
MaxExtra == 4        \* signal lengths go up to 3 * epoch_len + MaxExtra
MaxPeriod == 2       \* planted beats: every p-th sample, p <= MaxPeriod
MaxCpu == 5          \* mp.cpu_count() is 1 or MaxCpu
MaxFault == 1        \* the worker call that raises: none, or one of 1 .. MaxFault
MaxPos == 4          \* beats and annotations lie at the samples 0 .. MaxPos
MaxBeats == 2        \* number of beats handed to the matcher
MaxAnn == 2          \* number of annotations, both classes together

(***************************************************************************)
(* Arithmetic and Python helpers.                                          *)
(***************************************************************************)
Min(a, b) == IF a <= b THEN a ELSE b

Max(a, b) == IF a >= b THEN a ELSE b

Abs(x) == IF x < 0 THEN -x ELSE x

SetMin(S) == CHOOSE m \in S : \A x \in S : m <= x

RECURSIVE SortedSeq(_)
SortedSeq(S) ==
    IF S = {} THEN <<>>
    ELSE LET m == SetMin(S) IN <<m>> \o SortedSeq(S \ {m})

SeqToSet(s) == {s[i] : i \in 1..Len(s)}

\* int(round(num / den)) for num >= 0, den > 0: Python 3 rounds halves to even
PyRound(num, den) ==
    LET q == num \div den
        r == num % den
    IN  IF 2 * r < den THEN q
        ELSE IF 2 * r > den THEN q + 1
        ELSE IF q % 2 = 0 THEN q ELSE q + 1

\* a slice bound i applied to a sequence of length n
PyIndex(n, i) == IF i < 0 THEN Max(n + i, 0) ELSE Min(i, n)

\* x in lst, for a Python list
PyInFirst(x, lst) == lst # <<>> /\ lst[1] = x

PyIn(x, lst) == \E i \in 1..Len(lst) : lst[i] = x

\* dict.update: the entries of c override those of d
DictUpdate(d, c) ==
    [k \in (DOMAIN d) \cup (DOMAIN c) |-> IF k \in DOMAIN c THEN c[k] ELSE d[k]]

(***************************************************************************)
(* Signals as sequences of runs.                                           *)
(***************************************************************************)
Run(lo, hi, stages, blo, bhi) ==
    [lo |-> lo, hi |-> hi, stages |-> stages, blo |-> blo, bhi |-> bhi]

RawSlice(lo, hi) == IF hi <= lo THEN <<>> ELSE <<Run(lo, hi, <<>>, 0, 0)>>

RECURSIVE SigLen(_)
SigLen(s) == IF s = <<>> THEN 0 ELSE (Head(s).hi - Head(s).lo) + SigLen(Tail(s))

RECURSIVE Take(_, _)
Take(s, k) ==
    IF k <= 0 \/ s = <<>> THEN <<>>
    ELSE LET r == Head(s)
             n == r.hi - r.lo
         IN  IF n <= k THEN <<r>> \o Take(Tail(s), k - n)
             ELSE <<[r EXCEPT !.hi = r.lo + k]>>

RECURSIVE Drop(_, _)
Drop(s, k) ==
    IF s = <<>> THEN <<>>
    ELSE IF k <= 0 THEN s
    ELSE LET r == Head(s)
             n == r.hi - r.lo
         IN  IF n <= k THEN Drop(Tail(s), k - n)
             ELSE <<[r EXCEPT !.lo = r.lo + k]>> \o Tail(s)

\* s[a:b] with Python's treatment of negative and out-of-range bounds
PySlice(s, a, b) ==
    LET n == SigLen(s)
        a1 == PyIndex(n, a)
        b1 == PyIndex(n, b)
    IN  IF b1 <= a1 THEN <<>> ELSE Take(Drop(s, a1), b1 - a1)

\* s[a:]
PySliceFrom(s, a) == PySlice(s, a, SigLen(s))

\* np.append(s, t); adjacent runs of one buffer that continue each other
\* are one run, so that equal signals have equal representations
NpAppend(s, t) ==
    IF s = <<>> THEN t
    ELSE IF t = <<>> THEN s
    ELSE LET a == s[Len(s)]
             b == t[1]
         IN  IF a.stages = b.stages /\ a.blo = b.blo /\ a.bhi = b.bhi /\ a.hi = b.lo
             THEN SubSeq(s, 1, Len(s) - 1) \o <<[a EXCEPT !.hi = b.hi]>> \o Tail(t)
             ELSE s \o t

(***************************************************************************)
(* Configuration (cfg.py) and detectors.                                   *)
(***************************************************************************)
\* the module-level default configuration; fs in tenths of a hertz
PreprocessCfg ==
    [fs |-> 4000,
     preprocess |-> <<"baseline", "bandpass">>,
     parallel_epoch_len |-> 600,
     parallel_epoch_overlap |-> 10,
     parallel_keep_tail |-> TRUE,
     rpeaks |-> "xqrs"]

QRS_DETECTORS == {"xqrs", "gqrs", "pantompkins"}

\* str.lower() on the detector names the model uses
Lower(name) ==
    IF name = "XQRS" THEN "xqrs"
    ELSE IF name = "GQRS" THEN "gqrs"
    ELSE name

\* scipy.signal.resample(sig, num): num samples computed from the whole buffer
Resample(sig, num) ==
    IF sig = <<>> \/ num <= 0 THEN <<>>
    ELSE <<Run(0, num, <<"resample">>, sig[1].lo, sig[Len(sig)].hi)>>

\* a length-preserving filter stage (median_filter cascade, filter_signal)
\* applied to a whole buffer
Stage(sig, name) ==
    IF sig = <<>> THEN <<>>
    ELSE LET blo == IF sig[1].stages = <<>> THEN sig[1].lo ELSE sig[1].blo
             bhi == IF sig[1].stages = <<>> THEN sig[Len(sig)].hi ELSE sig[1].bhi
         IN  [i \in 1..Len(sig) |->
                 [sig[i] EXCEPT !.stages = Append(@, name), !.blo = blo, !.bhi = bhi]]

\* The peak detector of the model: it reports the planted beats that lie in
\* the buffer it is handed, as positions relative to that buffer, in
\* increasing order.  On a resampled buffer the positions are rescaled.
Detect(sig, beats) ==
    IF sig = <<>> THEN <<>>
    ELSE LET r == sig[1]
             lo == r.lo
             hi == sig[Len(sig)].hi
         IN  IF r.stages # <<>> /\ r.stages[1] = "resample"
             THEN SortedSeq({((b - r.blo) * (hi - lo)) \div (r.bhi - r.blo) :
                                b \in {x \in beats : r.blo <= x /\ x < r.bhi}})
             ELSE SortedSeq({b - lo : b \in {x \in beats : lo <= x /\ x < hi}})

\* np.array([], dtype=int), the beat list when no detector is selected
OneRpeak == <<0>>

NoRpeaks == <<>>

Raised(exc, log) ==
    [raised |-> exc, filtered_ecg |-> <<>>, rpeaks |-> <<>>, log |-> log]

Returned(filtered, rpeaks, log) ==
    [raised |-> "", filtered_ecg |-> filtered, rpeaks |-> rpeaks, log |-> log]

(***************************************************************************)
(* preprocess_signal(raw_ecg, fs, config).  beats are the beats planted in *)
(* the recording and fault tells whether the detector raises when called.  *)
(* log lists the stages that ran, in order.                                *)
(***************************************************************************)
preprocess_signal(raw_ecg, fs, config, beats, fault) ==
    LET cfg == DictUpdate(PreprocessCfg, config)
        doRs == fs # cfg.fs
        s1 == IF doRs
              THEN Resample(raw_ecg, PyRound(SigLen(raw_ecg) * PreprocessCfg.fs, fs))
              ELSE raw_ecg
        l1 == IF doRs THEN <<"resample">> ELSE <<>>
        doBl == PyIn("baseline", cfg.preprocess)
        s2 == IF doBl THEN Stage(s1, "baseline") ELSE s1
        l2 == IF doBl THEN Append(l1, "baseline") ELSE l1
        doBp == PyIn("bandpass", cfg.preprocess)
        s3 == IF doBp THEN Stage(s2, "bandpass") ELSE s2
        l3 == IF doBp THEN Append(l2, "bandpass") ELSE l2
    IN  IF cfg.rpeaks # ""
        THEN IF Lower(cfg.rpeaks) \notin QRS_DETECTORS
             THEN Raised("KeyError", l3)
             ELSE IF fault
                  THEN Raised("DetectorError", Append(l3, "rpeaks"))
                  ELSE Returned(s3, Detect(s3, beats), Append(l3, "rpeaks"))
        ELSE Returned(s3, NoRpeaks, l3)

(***************************************************************************)
(* parallel_preprocess_signal: window geometry (lines 164-187).            *)
(***************************************************************************)
epoch_len(cfg, fs) == (cfg.parallel_epoch_len * fs) \div 10

epoch_overlap_half(cfg, fs) == ((cfg.parallel_epoch_overlap * fs) \div 10) \div 2

epoch_overlap(cfg, fs) == 2 * epoch_overlap_half(cfg, fs)

EpochForwardNoOverlap(cfg, fs) == epoch_len(cfg, fs)

epoch_forward(cfg, fs) == epoch_len(cfg, fs) - epoch_overlap(cfg, fs)

\* "too short, no need for parallel computing"
TooShortStrict(n, elen) == n < 3 * elen

TooShort(n, elen) == n <= 3 * elen

\* the regular windows
RegularEpochs(raw_ecg, cfg, fs) ==
    LET n == (SigLen(raw_ecg) - epoch_overlap(cfg, fs)) \div epoch_forward(cfg, fs)
    IN  [idx \in 1..n |->
            PySlice(raw_ecg, (idx - 1) * epoch_forward(cfg, fs),
                    (idx - 1) * epoch_forward(cfg, fs) + epoch_len(cfg, fs))]

tail_start_idx(raw_ecg, cfg, fs) ==
    epoch_forward(cfg, fs) * Len(RegularEpochs(raw_ecg, cfg, fs)) + epoch_overlap(cfg, fs)

\* "less than 30s": len(raw_ecg) - tail_start_idx < 30 * fs
TailAlwaysShort(raw_ecg, cfg, fs) == TRUE

TailIsShort(raw_ecg, cfg, fs) ==
    10 * (SigLen(raw_ecg) - tail_start_idx(raw_ecg, cfg, fs)) < 30 * fs

\* l_epoch as handed to the pool
l_epoch(raw_ecg, cfg, fs) ==
    LET reg == RegularEpochs(raw_ecg, cfg, fs)
        ts == tail_start_idx(raw_ecg, cfg, fs)
    IN  IF ~cfg.parallel_keep_tail THEN reg
        ELSE IF TailIsShort(raw_ecg, cfg, fs)
             THEN [reg EXCEPT ![Len(reg)] = NpAppend(@, PySliceFrom(raw_ecg, ts))]
             ELSE Append(reg, PySliceFrom(raw_ecg, ts - epoch_overlap(cfg, fs)))

cpu_num(cpu_count) == Max(1, cpu_count - 3)

(***************************************************************************)
(* parallel_preprocess_signal: stitching (lines 196-210).                  *)
(***************************************************************************)
Shift(seq, off) == [i \in 1..Len(seq) |-> off + seq[i]]

\* rpeaks kept from the first window (line 201)
FirstRpeaks(rpeaks, elen, half) == SelectSeq(rpeaks, LAMBDA p : p < elen - half)

\* rpeaks kept from a window of the loop (line 204)
EpochRpeaksNoLowerBound(rpeaks, elen, half) ==
    SelectSeq(rpeaks, LAMBDA p : p < elen - half)

EpochRpeaks(rpeaks, elen, half) ==
    SelectSeq(rpeaks, LAMBDA p : p >= half /\ p < elen - half)

\* tail_rpeaks (line 209)
TailRpeaks(rpeaks, half) == SelectSeq(rpeaks, LAMBDA p : p >= half)

\* the loop of lines 202-205 over res[j .. ]; acc is [filtered_ecg, rpeaks]
RECURSIVE StitchLoop(_, _, _, _, _, _)
StitchLoop(res, j, acc, elen, half, fwd) ==
    IF j > Len(res) THEN acc
    ELSE StitchLoop(res, j + 1,
            [filtered_ecg |-> NpAppend(acc.filtered_ecg,
                                       PySlice(res[j].filtered_ecg, half, -half)),
             rpeaks |-> acc.rpeaks \o
                        Shift(EpochRpeaks(res[j].rpeaks, elen, half), (j - 1) * fwd)],
            elen, half, fwd)

\* lines 196-210: from the list returned by starmap to filtered_ecg, rpeaks
Stitch(results, cfg, fs) ==
    LET elen == epoch_len(cfg, fs)
        half == epoch_overlap_half(cfg, fs)
        fwd == epoch_forward(cfg, fs)
        keep == cfg.parallel_keep_tail
        tail_result == results[Len(results)]
        res == IF keep THEN SubSeq(results, 1, Len(results) - 1) ELSE results
    IN  IF Len(res) = 0 THEN Raised("IndexError", <<>>)
        ELSE
        LET first == [filtered_ecg |-> PySlice(res[1].filtered_ecg, 0, elen - half),
                      rpeaks |-> FirstRpeaks(res[1].rpeaks, elen, half)]
            body == StitchLoop(res, 2, first, elen, half, fwd)
            \* the value the loop variable epoch_rpeaks is left with
            epoch_rpeaks == EpochRpeaks(res[Len(res)].rpeaks, elen, half)
            tail_rpeaks == TailRpeaks(tail_result.rpeaks, half)
        IN  IF ~keep THEN Returned(body.filtered_ecg, body.rpeaks, <<>>)
            ELSE IF Len(res) < 2 THEN Raised("NameError", <<>>)
            ELSE Returned(
                    NpAppend(body.filtered_ecg, PySliceFrom(tail_result.filtered_ecg, half)),
                    \* line 210 appends epoch_rpeaks; tail_rpeaks is not used
                    body.rpeaks \o Shift(epoch_rpeaks, Len(res) * fwd),
                    <<>>)

(***************************************************************************)
(* Beat-annotation matching: the per-epoch functions (data_reader.py).     *)
(***************************************************************************)
\* np.inf: larger than every distance and every tolerance of the model
Inf == 1000000000

SeqMin(s) == SetMin(SeqToSet(s))

\* np.argmin: the first position (from 1) that holds the minimum
NpArgMin(s) == CHOOSE i \in 1..Len(s) : s[i] = SeqMin(s) /\ \A j \in 1..(i - 1) : s[j] # s[i]

\* np.abs(r - a), or [np.inf] when a is empty
DistTo(r, a) == IF a = <<>> THEN <<Inf>> ELSE [i \in 1..Len(a) |-> Abs(r - a[i])]

\* the branch taken for beat r: 0 (S), 1 (V) or 2 (N), as np.argmin numbers it
V3ArgminVFirst(r, ann, bias_thr) ==
    LET ds == SeqMin(DistTo(r, ann.SPB_indices))
        dv == SeqMin(DistTo(r, ann.PVC_indices))
    IN  IF bias_thr < ds /\ bias_thr < dv THEN 2 ELSE IF dv <= ds THEN 1 ELSE 0

V3Argmin(r, ann, bias_thr) ==
    NpArgMin(<<SeqMin(DistTo(r, ann.SPB_indices)),
               SeqMin(DistTo(r, ann.PVC_indices)),
               bias_thr>>) - 1

LabelOfArgmin(argmin) == IF argmin = 1 THEN "V" ELSE "S"

\* the loop body of v3 for the beats rpeaks[i ..]; acc is the value so far
RECURSIVE V3LoopConsuming(_, _, _, _, _)
V3LoopConsuming(rpeaks, ann, bias_thr, i, acc) ==
    IF i > Len(rpeaks) THEN acc
    ELSE LET r == rpeaks[i]
             argmin == V3Argmin(r, ann, bias_thr)
             k == IF argmin = 1 THEN "PVC_indices" ELSE "SPB_indices"
             a == ann[k][NpArgMin(DistTo(r, ann[k]))]
         IN  IF argmin = 2 THEN V3LoopConsuming(rpeaks, ann, bias_thr, i + 1, acc)
             ELSE V3LoopConsuming(rpeaks,
                     [ann EXCEPT ![k] = SelectSeq(@, LAMBDA x : x # a)],
                     bias_thr, i + 1,
                     [beat_ann |-> [acc.beat_ann EXCEPT ![i] = LabelOfArgmin(argmin)],
                      ann_matched |-> [acc.ann_matched EXCEPT ![k] = Append(@, a)]])

RECURSIVE V3Loop(_, _, _, _, _)
V3Loop(rpeaks, ann, bias_thr, i, acc) ==
    IF i > Len(rpeaks) THEN acc
    ELSE LET r == rpeaks[i]
             argmin == V3Argmin(r, ann, bias_thr)
             next ==
                IF argmin = 2 THEN acc
                ELSE IF argmin = 1
                THEN [beat_ann |-> [acc.beat_ann EXCEPT ![i] = "V"],
                      ann_matched |-> [acc.ann_matched EXCEPT !.PVC_indices =
                          Append(@, ann.PVC_indices[NpArgMin(DistTo(r, ann.PVC_indices))])]]
                ELSE [beat_ann |-> [acc.beat_ann EXCEPT ![i] = "S"],
                      ann_matched |-> [acc.ann_matched EXCEPT !.SPB_indices =
                          Append(@, ann.SPB_indices[NpArgMin(DistTo(r, ann.SPB_indices))])]]
         IN  V3Loop(rpeaks, ann, bias_thr, i + 1, next)

_ann_to_beat_ann_epoch_v3(rpeaks, ann, bias_thr) ==
    V3Loop(rpeaks, ann, bias_thr, 1,
           [beat_ann |-> [i \in 1..Len(rpeaks) |-> "N"],
            ann_matched |-> [SPB_indices |-> <<>>, PVC_indices |-> <<>>]])

_ann_to_beat_ann_epoch_v1(rpeaks, ann, bias_thr) ==
    [beat_ann |-> [i \in 1..Len(rpeaks) |->
        IF \E j \in 1..Len(ann.SPB_indices) : Abs(rpeaks[i] - ann.SPB_indices[j]) < bias_thr
        THEN "S"
        ELSE IF \E j \in 1..Len(ann.PVC_indices) : Abs(rpeaks[i] - ann.PVC_indices[j]) < bias_thr
        THEN "V"
        ELSE "N"],
     ann_matched |-> ann]

(***************************************************************************)
(* CPSC2020Reader._ann_to_beat_ann: epochs (lines 550-572).                *)
(***************************************************************************)
\* s[a:b] of a sequence, 0-based bounds as in Python
PySeqSlice(s, a, b) == SubSeq(s, PyIndex(Len(s), a) + 1, PyIndex(Len(s), b))

\* len(np.where(rpeaks < x)[0])
CountBelow(rpeaks, x) == Cardinality({i \in 1..Len(rpeaks) : rpeaks[i] < x})

\* lines 551-555; rpeaks is not empty
split_indices(rpeaks, bias_thr, one_hour) ==
    LET m == (rpeaks[Len(rpeaks)] + bias_thr) \div one_hour
        \* range(1, m) is empty for m <= 1
        base == <<0>> \o [i \in 1..Max(m - 1, 0) |-> CountBelow(rpeaks, i * one_hour) + 1]
    IN  IF Len(base) = 1 \/ base[Len(base)] < Len(rpeaks)
        THEN Append(base, Len(rpeaks))
        ELSE base

\* p['rpeaks'] of epoch idx (line 560)
EpochBeatsOverlapping(rpeaks, split, idx) ==
    PySeqSlice(rpeaks, Max(split[idx] - 1, 0), split[idx + 1])

EpochBeats(rpeaks, split, idx) == PySeqSlice(rpeaks, split[idx], split[idx + 1])

\* p['ann'][k] (line 562); beats is not empty
EpochAnnNoSlack(v, beats, bias_thr) ==
    SelectSeq(v, LAMBDA a : a >= beats[1] /\ a <= beats[Len(beats)])

EpochAnn(v, beats, bias_thr) ==
    SelectSeq(v, LAMBDA a : a >= beats[1] - bias_thr - 1 /\ a < beats[Len(beats)] + bias_thr + 1)

\* lines 550-572: epoch_params, or the IndexError of rpeaks[-1] and p['rpeaks'][0]
epoch_params(rpeaks, ann, bias_thr, one_hour) ==
    IF rpeaks = <<>> THEN [raised |-> "IndexError", params |-> <<>>]
    ELSE LET split == split_indices(rpeaks, bias_thr, one_hour)
         IN  IF \E idx \in 1..(Len(split) - 1) : EpochBeats(rpeaks, split, idx) = <<>>
             THEN [raised |-> "IndexError", params |-> <<>>]
             ELSE [raised |-> "",
                   params |-> [idx \in 1..(Len(split) - 1) |->
                       LET b == EpochBeats(rpeaks, split, idx)
                       IN  [rpeaks |-> b,
                            ann |-> [SPB_indices |-> EpochAnn(ann.SPB_indices, b, bias_thr),
                                     PVC_indices |-> EpochAnn(ann.PVC_indices, b, bias_thr)]]]]

(***************************************************************************)
(* _ann_to_beat_ann: gathering and augmentation (lines 593-613).           *)
(***************************************************************************)
RECURSIVE NpConcatenate(_)
NpConcatenate(ss) == IF ss = <<>> THEN <<>> ELSE Head(ss) \o NpConcatenate(Tail(ss))

\* lines 593-596
AnnMatched(results, k) == NpConcatenate([t \in 1..Len(results) |-> results[t].ann_matched[k]])

\* lines 597-599
AnnNotMatchedSpbOnly(ann, results, k) ==
    IF k = "PVC_indices" THEN <<>>
    ELSE SelectSeq(ann[k], LAMBDA a : a \notin SeqToSet(AnnMatched(results, k)))

AnnNotMatched(ann, results, k) ==
    SelectSeq(ann[k], LAMBDA a : a \notin SeqToSet(AnnMatched(results, k)))

\* lines 601, 604: the labels before sorting
AugmentedLabelsAllS(results, nS, nV) ==
    NpConcatenate([t \in 1..Len(results) |-> results[t].beat_ann])
        \o [i \in 1..nS |-> "S"] \o [i \in 1..nV |-> "S"]

AugmentedLabels(results, nS, nV) ==
    NpConcatenate([t \in 1..Len(results) |-> results[t].beat_ann])
        \o [i \in 1..nS |-> "S"] \o [i \in 1..nV |-> "V"]

\* np.argsort (quicksort): every order of the positions that sorts locs; the
\* relative order of equal locations is not specified
RECURSIVE ArgSortsOf(_, _)
ArgSortsOf(locs, S) ==
    IF S = {} THEN {<<>>}
    ELSE LET m == SetMin({locs[i] : i \in S})
         IN  UNION {{<<i>> \o rest : rest \in ArgSortsOf(locs, S \ {i})} :
                        i \in {j \in S : locs[j] = m}}

ArgSorts(locs) == ArgSortsOf(locs, 1..Len(locs))

\* a[idx] for an index array idx
TakeAt(a, idx) == [i \in 1..Len(idx) |-> a[idx[i]]]

\* np.where of line 611, as positions from 1
ValidIndicesNoMargin(locs, winL, winR, sig_len) == [i \in 1..Len(locs) |-> i]

ValidIndices(locs, winL, winR, sig_len) ==
    SelectSeq([i \in 1..Len(locs) |-> i],
              LAMBDA i : locs[i] >= winL /\ locs[i] < sig_len - winR)

\* lines 593-613 for one outcome `order` of np.argsort; beat_ann[sorted_indices]
\* raises IndexError when beat_ann is shorter than augmented_rpeaks, and
\* np.vectorize (line 633) raises ValueError on an input of size 0
Augmented(rpeaks, ann, results, order, winL, winR, sig_len) ==
    LET nmS == AnnNotMatched(ann, results, "SPB_indices")
        nmV == AnnNotMatched(ann, results, "PVC_indices")
        locs == TakeAt(rpeaks \o nmS \o nmV, order)
        labels == AugmentedLabels(results, Len(nmS), Len(nmV))
    IN  IF Len(labels) < Len(locs)
        THEN [raised |-> "IndexError", rpeaks |-> <<>>, beat_ann |-> <<>>]
        ELSE LET labs == TakeAt(labels, order)
                 valid == ValidIndices(locs, winL, winR, sig_len)
             IN  IF valid = <<>>
                 THEN [raised |-> "ValueError", rpeaks |-> <<>>, beat_ann |-> <<>>]
                 ELSE [raised |-> "", rpeaks |-> TakeAt(locs, valid),
                       beat_ann |-> TakeAt(labs, valid)]

\* the path of lines 625-629
BeatAnnPath(rec_name, augment) ==
    IF augment THEN <<"beat_ann", rec_name, "augment">> ELSE <<"beat_ann", rec_name>>

(***************************************************************************)
(* State, pool and files.                                                  *)
(***************************************************************************)
NoRet == [returned |-> FALSE, filtered_ecg |-> <<>>, rpeaks |-> <<>>, beat_ann |-> <<>>]

RetAnn(r, aux) ==
    [returned |-> TRUE, filtered_ecg |-> <<>>,
     rpeaks |-> IF aux THEN r.rpeaks ELSE <<>>, beat_ann |-> r.beat_ann]

RetPre(r) ==
    [returned |-> TRUE, filtered_ecg |-> r.filtered_ecg, rpeaks |-> r.rpeaks,
     beat_ann |-> <<>>]

File(path, filtered, rpeaks, beat_ann) ==
    [path |-> path, filtered_ecg |-> filtered, rpeaks |-> rpeaks, beat_ann |-> beat_ann]

\* np.save / savemat: the file at path is created or replaced
WriteFile(fs, f) == {g \in fs : g.path # f.path} \cup {f}

\* lines 212-221
SavePre(fs, save_dir, save_fmt, r) ==
    IF save_dir = "" THEN fs
    ELSE IF Lower(save_fmt) = "npy"
         THEN WriteFile(WriteFile(fs, File(<<save_dir, "filtered_ecg.npy">>, r.filtered_ecg, <<>>, <<>>)),
                        File(<<save_dir, "rpeaks.npy">>, <<>>, r.rpeaks, <<>>))
    ELSE IF Lower(save_fmt) = "mat"
         THEN WriteFile(WriteFile(fs, File(<<save_dir, "filtered_ecg.mat">>, r.filtered_ecg, <<>>, <<>>)),
                        File(<<save_dir, "rpeaks.mat">>, <<>>, r.rpeaks, <<>>))
    ELSE fs

\* starmap puts the value of task t at position t of the list it returns
StoreResultInCompletionOrder(res, t, k, r) == (k :> r) @@ res

StoreResult(res, t, k, r) == (t :> r) @@ res

\* starmap re-raises in the caller the exception a worker raised
StarmapIgnoresError(err) == FALSE

StarmapRaises(err) == err

NTasks == Len(tasks)

Running == {t \in 1..NTasks : status[t] = "running"}

AllDone == \A t \in 1..NTasks : status[t] = "done"

ResultList == [t \in 1..NTasks |-> result[t]]

\* starmap blocks the caller until every task has finished, a raised
\* exception included: the result is ready "once all jobs are done"
StarmapReturnsOnError == AllDone \/ poolError

StarmapReturned == AllDone

MergedCfg == DictUpdate(PreprocessCfg, args.config)

RawEcg == RawSlice(0, args.n)

(***************************************************************************)
(* Objects of the calling process.  The caller's objects are the module-   *)
(* level default PreprocessCfg, the config, raw_ecg, rpeaks and ann it     *)
(* passes; cfg and cfg_inner are the locals cfg of                         *)
(* parallel_preprocess_signal and of the preprocess_signal it calls.  The  *)
(* workers run in other processes on pickled copies, so that nothing they  *)
(* do reaches these objects.                                               *)
(***************************************************************************)
Unbound == <<>>

\* deepcopy(obj) bound to a local: the object the local names afterwards
DeepcopyAliases(obj, local) == obj

Deepcopy(obj, local) == local

\* cfg = deepcopy(PreprocessCfg); cfg.update(config or {}), config being the
\* object named src
MergeConfig(h, src, local) ==
    LET cfg == Deepcopy("PreprocessCfg", local)
    IN  [h EXCEPT ![cfg] = DictUpdate(h.PreprocessCfg, h[src])]

(***************************************************************************)
(* Actions of parallel_preprocess_signal.                                  *)
(***************************************************************************)
\* lines 164-173: the call up to the delegation of a short signal
PreprocessShort ==
    /\ pc = "call" /\ fn = "parallel_preprocess_signal"
    /\ TooShort(args.n, epoch_len(MergedCfg, args.fs))
    /\ LET r == preprocess_signal(RawEcg, args.fs, MergedCfg, args.beats, args.fault = 1)
       IN  IF r.raised # ""
           THEN pc' = "raised" /\ ret' = ret
           ELSE pc' = "done" /\ ret' = RetPre(r)
    /\ heap' = MergeConfig(MergeConfig(heap, "config", "cfg"), "cfg", "cfg_inner")
    /\ UNCHANGED <<fn, args, tasks, status, result, finished, poolError,
                   poolStarted, files>>

\* lines 164-190: the call up to the creation of the pool
PreprocessFanOut ==
    /\ pc = "call" /\ fn = "parallel_preprocess_signal"
    /\ ~TooShort(args.n, epoch_len(MergedCfg, args.fs))
    /\ tasks' = l_epoch(RawEcg, MergedCfg, args.fs)
    /\ status' = [t \in 1..Len(tasks') |-> "pending"]
    /\ poolStarted' = TRUE
    /\ pc' = "starmap"
    /\ heap' = MergeConfig(heap, "config", "cfg")
    /\ UNCHANGED <<fn, args, result, finished, poolError, ret, files>>

\* lines 196-228: starmap has returned; stitch, save, return
PreprocessFanIn ==
    /\ pc = "starmap" /\ fn = "parallel_preprocess_signal"
    /\ StarmapReturned
    /\ IF StarmapRaises(poolError)
       THEN pc' = "raised" /\ UNCHANGED <<ret, files>>
       ELSE LET r == Stitch(ResultList, MergedCfg, args.fs)
            IN  IF r.raised # ""
                THEN pc' = "raised" /\ UNCHANGED <<ret, files>>
                ELSE /\ pc' = "done"
                     /\ files' = SavePre(files, args.save_dir, args.save_fmt, r)
                     /\ ret' = RetPre(r)
    /\ UNCHANGED <<fn, args, heap, tasks, status, result, finished, poolError, poolStarted>>

(***************************************************************************)
(* Actions of _ann_to_beat_ann.                                            *)
(***************************************************************************)
EpochParams == epoch_params(args.rpeaks, args.ann, args.bias_thr, args.one_hour)

\* lines 550-572 raise: rpeaks is empty or an epoch holds no beat
AnnToBeatAnnSplitFails ==
    /\ pc = "call" /\ fn = "_ann_to_beat_ann"
    /\ EpochParams.raised # ""
    /\ pc' = "raised"
    /\ UNCHANGED <<fn, args, heap, tasks, status, result, finished, poolError,
                   poolStarted, ret, files>>

\* lines 550-579: the call up to the creation of the pool
AnnToBeatAnnFanOut ==
    /\ pc = "call" /\ fn = "_ann_to_beat_ann"
    /\ EpochParams.raised = ""
    /\ tasks' = EpochParams.params
    /\ status' = [t \in 1..Len(tasks') |-> "pending"]
    /\ poolStarted' = TRUE
    /\ pc' = "starmap"
    /\ UNCHANGED <<fn, args, heap, result, finished, poolError, ret, files>>

\* lines 593-640: starmap has returned; gather, augment, filter, save, return
AnnToBeatAnnFanIn ==
    /\ pc = "starmap" /\ fn = "_ann_to_beat_ann"
    /\ StarmapReturned
    /\ IF StarmapRaises(poolError)
       THEN pc' = "raised" /\ UNCHANGED <<ret, files>>
       ELSE \E order \in ArgSorts(args.rpeaks
                                    \o AnnNotMatched(args.ann, ResultList, "SPB_indices")
                                    \o AnnNotMatched(args.ann, ResultList, "PVC_indices")) :
              LET r == Augmented(args.rpeaks, args.ann, ResultList, order,
                                 args.beat_winL, args.beat_winR, args.sig_len)
              IN  IF r.raised # ""
                  THEN pc' = "raised" /\ UNCHANGED <<ret, files>>
                  ELSE /\ pc' = "done"
                       /\ files' = WriteFile(files,
                              File(BeatAnnPath(args.rec_name, args.augment),
                                   <<>>, r.rpeaks, r.beat_ann))
                       /\ ret' = RetAnn(r, args.return_aux_data)
    /\ UNCHANGED <<fn, args, heap, tasks, status, result, finished, poolError, poolStarted>>

(***************************************************************************)
(* The worker pool (mp.Pool.starmap).                                      *)
(***************************************************************************)
\* what the function handed to starmap does with task t; the call of the
\* detector raises in the task numbered args.fault
RunTaskOn(task, t) ==
    IF fn = "parallel_preprocess_signal"
    THEN preprocess_signal(task, args.fs, MergedCfg, args.beats, args.fault = t)
    ELSE IF args.fault = t
    THEN [raised |-> "WorkerError", beat_ann |-> <<>>,
          ann_matched |-> [SPB_indices |-> <<>>, PVC_indices |-> <<>>]]
    ELSE LET r == IF args.augment
                  THEN _ann_to_beat_ann_epoch_v3(task.rpeaks, task.ann, args.bias_thr)
                  ELSE _ann_to_beat_ann_epoch_v1(task.rpeaks, task.ann, args.bias_thr)
         IN  [raised |-> "", beat_ann |-> r.beat_ann, ann_matched |-> r.ann_matched]

RunTask(t) == RunTaskOn(tasks[t], t)

\* a free worker takes the next task from the pool's task queue, which
\* holds the tasks in list order
WorkerStart(t) ==
    /\ pc = "starmap"
    /\ status[t] = "pending"
    /\ \A u \in 1..(t - 1) : status[u] # "pending"
    /\ Cardinality(Running) < cpu_num(args.cpu_count)
    /\ status' = [status EXCEPT ![t] = "running"]
    /\ UNCHANGED <<fn, args, heap, pc, tasks, result, finished, poolError, poolStarted,
                   ret, files>>

\* a worker finishes its task, by returning or by raising
WorkerFinish(t) ==
    /\ pc = "starmap"
    /\ status[t] = "running"
    /\ LET r == RunTask(t)
       IN  /\ result' = StoreResult(result, t, finished.n + 1, r)
           /\ poolError' = (poolError \/ r.raised # "")
    /\ status' = [status EXCEPT ![t] = "done"]
    /\ finished' = [n |-> finished.n + 1,
                     overtook |-> finished.overtook
                                    \/ \E u \in 1..(t - 1) : status[u] # "done"]
    /\ UNCHANGED <<fn, args, heap, pc, tasks, poolStarted, ret, files>>

(***************************************************************************)
(* Initial states: the calls the model makes.                              *)
(***************************************************************************)
EpochSecs == {40, 60}

OverlapSecs == {0, 20}

\* beats planted at every p-th sample; p = 0 plants none
Planted(n, p) == IF p = 0 THEN {} ELSE {i \in 0..(n - 1) : i % p = 0}

PreprocessCalls ==
    {[n |-> 3 * ((el * 1) \div 10) - 1 + d, beats |-> Planted(3 * ((el * 1) \div 10) - 1 + d, p),
      fs |-> 1,
      config |-> [fs |-> 1, parallel_epoch_len |-> el, parallel_epoch_overlap |-> ov,
                  parallel_keep_tail |-> kt],
      save_dir |-> sd, save_fmt |-> "npy", cpu_count |-> cc, fault |-> f] :
        el \in EpochSecs, ov \in OverlapSecs, kt \in BOOLEAN,
        d \in 0..(MaxExtra + 1), p \in 0..MaxPeriod,
        sd \in {"", "out"}, cc \in {1, MaxCpu}, f \in 0..MaxFault}

\* calls with both filter stages switched off
IdentityCalls ==
    {[n |-> 3 * ((el * 1) \div 10) - 1 + d,
      beats |-> Planted(3 * ((el * 1) \div 10) - 1 + d, MaxPeriod),
      fs |-> 1,
      config |-> [fs |-> 1, parallel_epoch_len |-> el, parallel_epoch_overlap |-> ov,
                  parallel_keep_tail |-> kt, preprocess |-> <<>>],
      save_dir |-> "", save_fmt |-> "npy", cpu_count |-> MaxCpu, fault |-> 0] :
        el \in EpochSecs, ov \in OverlapSecs, kt \in BOOLEAN, d \in 0..(MaxExtra + 1)}

\* calls with the detector switched off, for every window geometry and
\* both tail policies
NoDetectorCalls ==
    {[n |-> 3 * ((el * 1) \div 10) - 1 + d,
      beats |-> Planted(3 * ((el * 1) \div 10) - 1 + d, 1),
      fs |-> 1,
      config |-> [fs |-> 1, parallel_epoch_len |-> el, parallel_epoch_overlap |-> ov,
                  parallel_keep_tail |-> kt, rpeaks |-> ""],
      save_dir |-> "", save_fmt |-> "npy", cpu_count |-> MaxCpu, fault |-> f] :
        el \in EpochSecs, ov \in OverlapSecs, kt \in BOOLEAN, d \in 0..(MaxExtra + 1),
        f \in 0..MaxFault}

\* detector names a caller may configure: unknown, upper case, none
DetectorNames == {"foo", "XQRS", ""}

\* calls that name the detector, on a signal of 3 x epoch_len samples and
\* on one that is one sample longer
DetectorCalls ==
    {[n |-> 3 * ((el * 1) \div 10) + d,
      beats |-> Planted(3 * ((el * 1) \div 10) + d, 1),
      fs |-> 1,
      config |-> [fs |-> 1, parallel_epoch_len |-> el, parallel_epoch_overlap |-> 20,
                  parallel_keep_tail |-> TRUE, rpeaks |-> name],
      save_dir |-> "out", save_fmt |-> "npy", cpu_count |-> MaxCpu, fault |-> 0] :
        el \in EpochSecs, d \in {0, 1}, name \in DetectorNames}

\* a 400 Hz recording of 10 x epoch_len + 37 samples under the default
\* configuration, with beats in the last regular window and in the tail
LongRecordingCall ==
    [n |-> 10 * 240000 + 37, beats |-> {2130000, 2361999, 2390000},
     fs |-> 4000, config |-> [fs |-> 4000],
     save_dir |-> "", save_fmt |-> "npy", cpu_count |-> MaxCpu, fault |-> 0]

\* the lists of filter stages a caller may configure, in both orders
StageLists ==
    {<<>>, <<"baseline">>, <<"bandpass">>,
     <<"baseline", "bandpass">>, <<"bandpass", "baseline">>}

\* input rates and target rates, in tenths of a hertz
Rates == {1, 2}

\* calls that choose the stages, the detector, the input rate and the target
\* rate, on a signal of 3 x epoch_len samples and on one that is one sample
\* longer
StageCalls ==
    {[n |-> 3 * ((40 * fs) \div 10) + d,
      beats |-> Planted(3 * ((40 * fs) \div 10) + d, MaxPeriod),
      fs |-> fs,
      config |-> [fs |-> cfs, parallel_epoch_len |-> 40, parallel_epoch_overlap |-> 20,
                  parallel_keep_tail |-> TRUE, preprocess |-> pl, rpeaks |-> det],
      save_dir |-> "", save_fmt |-> "npy", cpu_count |-> MaxCpu, fault |-> 0] :
        fs \in Rates, cfs \in Rates, pl \in StageLists, det \in {"xqrs", ""},
        d \in {0, 1}}

\* self.fs * 3600 of a recorder slow enough that an hour is three samples
ShortHour == 3

BiasThrs == {1, 2}

\* the strictly increasing sequences of at most k elements of S
IncSeqs(S, k) == {SortedSeq(T) : T \in {U \in SUBSET S : Cardinality(U) <= k}}

AnnSets(k) ==
    {[SPB_indices |-> sv[1], PVC_indices |-> sv[2]] :
        sv \in {x \in IncSeqs(0..MaxPos, k) \X IncSeqs(0..MaxPos, k) :
                    Len(x[1]) + Len(x[2]) <= k}}

MatchCall(r, a, b, aug, cc, f) ==
    [rec_name |-> "A01", rpeaks |-> r, ann |-> a, bias_thr |-> b, augment |-> aug,
     return_aux_data |-> TRUE, save |-> FALSE, one_hour |-> ShortHour,
     beat_winL |-> 1, beat_winR |-> 1, sig_len |-> MaxPos + 1,
     cpu_count |-> cc, fault |-> f]

\* every beat sequence and annotation set of the bounds, default pool
DenseMatchCalls ==
    {MatchCall(r, a, b, TRUE, MaxCpu, 0) :
        r \in IncSeqs(0..MaxPos, MaxBeats), a \in AnnSets(MaxAnn), b \in BiasThrs}

\* pool size, worker failure and the augment flag
PoolMatchCalls ==
    {MatchCall(r, a, b, aug, cc, f) :
        r \in {x \in IncSeqs(0..MaxPos, MaxBeats) : Len(x) = MaxBeats},
        a \in AnnSets(1), b \in BiasThrs, aug \in BOOLEAN,
        cc \in {1, MaxCpu}, f \in 0..MaxFault}

\* the two scenarios of the specification, on the 400 Hz recorder
ScenarioCall(r, spb, pvc) ==
    [rec_name |-> "A01", rpeaks |-> r,
     ann |-> [SPB_indices |-> spb, PVC_indices |-> pvc], bias_thr |-> 10,
     augment |-> TRUE, return_aux_data |-> TRUE, save |-> FALSE,
     one_hour |-> 400 * 3600, beat_winL |-> 100, beat_winR |-> 100,
     sig_len |-> 10000, cpu_count |-> MaxCpu, fault |-> 0]

ScenarioMatched == ScenarioCall(<<100, 5000, 9000>>, <<5003>>, <<98>>)

ScenarioUnmatched == ScenarioCall(<<100, 9000>>, <<5000>>, <<>>)

\* a call without augmentation: the nearest annotation of the beat is a PVC
\* and an SPB lies inside the tolerance too
ScenarioNoAugment ==
    [ScenarioCall(<<5000>>, <<5005>>, <<5001>>) EXCEPT !.augment = FALSE]

\* a recording of four hours whose two beats are more than three hours apart
ScenarioGap ==
    [ScenarioCall(<<100, 3 * 400 * 3600 + 500>>, <<>>, <<>>)
        EXCEPT !.sig_len = 4 * 400 * 3600]

\* the call load_beat_ann makes: save=True
ScenarioSaved == [ScenarioMatched EXCEPT !.save = TRUE]

MatchCalls ==
    DenseMatchCalls \cup PoolMatchCalls
        \cup {ScenarioMatched, ScenarioUnmatched, ScenarioNoAugment, ScenarioSaved,
              ScenarioGap}

\* the objects as the caller holds them when it makes the call
CallerObjects ==
    IF fn = "parallel_preprocess_signal"
    THEN [PreprocessCfg |-> PreprocessCfg, config |-> args.config,
          raw_ecg |-> RawEcg, rpeaks |-> Unbound, ann |-> Unbound,
          cfg |-> Unbound, cfg_inner |-> Unbound]
    ELSE [PreprocessCfg |-> PreprocessCfg, config |-> Unbound,
          raw_ecg |-> Unbound, rpeaks |-> args.rpeaks, ann |-> args.ann,
          cfg |-> Unbound, cfg_inner |-> Unbound]

Init ==
    /\ \/ fn = "parallel_preprocess_signal"
          /\ args \in PreprocessCalls \cup IdentityCalls \cup DetectorCalls
                       \cup StageCalls \cup NoDetectorCalls \cup {LongRecordingCall}
       \/ fn = "_ann_to_beat_ann" /\ args \in MatchCalls
    /\ pc = "call"
    /\ tasks = <<>>
    /\ status = <<>>
    /\ result = <<>>
    /\ finished = [n |-> 0, overtook |-> FALSE]
    /\ poolError = FALSE
    /\ poolStarted = FALSE
    /\ ret = NoRet
    /\ files = {}
    /\ heap = CallerObjects

Next ==
    \/ PreprocessShort
    \/ PreprocessFanOut
    \/ PreprocessFanIn
    \/ AnnToBeatAnnSplitFails
    \/ AnnToBeatAnnFanOut
    \/ AnnToBeatAnnFanIn
    \/ \E t \in 1..NTasks : WorkerStart(t)
    \/ \E t \in 1..NTasks : WorkerFinish(t)

Spec == Init /\ [][Next]_vars

\* beat sequences of two beats that are not strictly increasing
UnsortedSeqs == {<<x, y>> : x \in 0..MaxPos, y \in 0..MaxPos} \ IncSeqs(0..MaxPos, 2)

UnsortedMatchCalls ==
    {MatchCall(r, a, b, TRUE, MaxCpu, 0) :
        r \in UnsortedSeqs, a \in AnnSets(1), b \in BiasThrs}

\* the calls of Init and, in addition, calls whose beat sequence is not sorted
InitUnsorted ==
    /\ \/ fn = "parallel_preprocess_signal"
          /\ args \in PreprocessCalls \cup IdentityCalls \cup DetectorCalls
                       \cup StageCalls \cup NoDetectorCalls \cup {LongRecordingCall}
       \/ fn = "_ann_to_beat_ann" /\ args \in MatchCalls \cup UnsortedMatchCalls
    /\ pc = "call"
    /\ tasks = <<>>
    /\ status = <<>>
    /\ result = <<>>
    /\ finished = [n |-> 0, overtook |-> FALSE]
    /\ poolError = FALSE
    /\ poolStarted = FALSE
    /\ ret = NoRet
    /\ files = {}
    /\ heap = CallerObjects

SpecUnsorted == InitUnsorted /\ [][Next]_vars

(***************************************************************************)
(* CPSC2020Reader.load_beat_ann (data_reader.py 445-509): a reader serving *)
(* a sequence of calls on one record.  args holds the record (its detected *)
(* rpeaks, its annotations, its length) and the arguments of the latest    *)
(* call; files is the beat-annotation directory.                           *)
(***************************************************************************)
\* None, for sampfrom and sampto
NoneValue == -1

\* sf, st = (sampfrom or 0), (sampto or np.inf)
SampFrom(sampfrom) == IF sampfrom = NoneValue \/ sampfrom = 0 THEN 0 ELSE sampfrom

SampTo(sampto) == IF sampto = NoneValue \/ sampto = 0 THEN Inf ELSE sampto

\* v[np.where((v >= sf) & (v < st))[0]] of load_rpeaks and load_ann
InRangeOf(v, sampfrom, sampto) ==
    SelectSeq(v, LAMBDA x : x >= SampFrom(sampfrom) /\ x < SampTo(sampto))

load_rpeaks(rec, sampfrom, sampto) == InRangeOf(rec.rpeaks, sampfrom, sampto)

load_ann(rec, sampfrom, sampto) ==
    [SPB_indices |-> InRangeOf(rec.ann.SPB_indices, sampfrom, sampto),
     PVC_indices |-> InRangeOf(rec.ann.PVC_indices, sampfrom, sampto)]

\* BaseCfg.beat_ann_bias_thr = 0.1 * fs at 400 Hz
beat_ann_bias_thr == 40

\* the values _ann_to_beat_ann can produce (lines 550-613), the epochs
\* computed one after the other; one value per outcome of np.argsort
AnnToBeatAnnValues(rpeaks, ann, bias_thr, one_hour, augment, winL, winR, sig_len) ==
    LET ep == epoch_params(rpeaks, ann, bias_thr, one_hour)
    IN  IF ep.raised # ""
        THEN {[raised |-> ep.raised, rpeaks |-> <<>>, beat_ann |-> <<>>]}
        ELSE LET results ==
                    [t \in 1..Len(ep.params) |->
                        IF augment
                        THEN _ann_to_beat_ann_epoch_v3(ep.params[t].rpeaks, ep.params[t].ann, bias_thr)
                        ELSE _ann_to_beat_ann_epoch_v1(ep.params[t].rpeaks, ep.params[t].ann, bias_thr)]
             IN  {Augmented(rpeaks, ann, results, order, winL, winR, sig_len) :
                     order \in ArgSorts(rpeaks
                                        \o AnnNotMatched(ann, results, "SPB_indices")
                                        \o AnnNotMatched(ann, results, "PVC_indices"))}

\* what a computation of the requested range yields
RangeValues(rec, sampfrom, sampto, augment) ==
    AnnToBeatAnnValues(load_rpeaks(rec, sampfrom, sampto), load_ann(rec, sampfrom, sampto),
                       beat_ann_bias_thr, rec.one_hour, augment,
                       rec.beat_winL, rec.beat_winR, rec.sig_len)

CachedFiles(rec_name, augment) == {f \in files : f.path = BeatAnnPath(rec_name, augment)}

LoadArgs(sampfrom, sampto, augment, aux, force) ==
    [args EXCEPT !.sampfrom = sampfrom, !.sampto = sampto, !.augment = augment,
                 !.return_aux_data = aux, !.force_recompute = force]

\* lines 475-488: the file of the record exists and is loaded
LoadCached(sampfrom, sampto, augment, aux) ==
    /\ fn = "load_beat_ann"
    /\ CachedFiles(args.rec_name, augment) # {}
    /\ \E f \in CachedFiles(args.rec_name, augment) :
           ret' = RetAnn(f, aux)
    /\ pc' = "done"
    /\ args' = LoadArgs(sampfrom, sampto, augment, aux, FALSE)
    /\ UNCHANGED <<fn, heap, tasks, status, result, finished, poolError,
                   poolStarted, files>>

\* lines 475-480, 489-509: no file, or force_recompute; load_rpeaks,
\* load_ann and _ann_to_beat_ann with save=True
LoadRecompute(sampfrom, sampto, augment, aux, force) ==
    /\ fn = "load_beat_ann"
    /\ force \/ CachedFiles(args.rec_name, augment) = {}
    /\ \E r \in RangeValues(args, sampfrom, sampto, augment) :
           IF r.raised # ""
           THEN pc' = "raised" /\ ret' = NoRet /\ files' = files
           ELSE /\ pc' = "done"
                /\ files' = WriteFile(files, File(BeatAnnPath(args.rec_name, augment),
                                                  <<>>, r.rpeaks, r.beat_ann))
                /\ ret' = RetAnn(r, aux)
    /\ args' = LoadArgs(sampfrom, sampto, augment, aux, force)
    /\ UNCHANGED <<fn, heap, tasks, status, result, finished, poolError, poolStarted>>

\* the ranges callers ask for
SampFroms == {NoneValue, 5000}

SampTos == {NoneValue, 5000, 8000}

\* the records of the reader, at 400 Hz
LoadRecord(r, spb, pvc) ==
    [rec_name |-> "A01", rpeaks |-> r,
     ann |-> [SPB_indices |-> spb, PVC_indices |-> pvc],
     one_hour |-> 400 * 3600, beat_winL |-> 100, beat_winR |-> 100, sig_len |-> 10000,
     sampfrom |-> NoneValue, sampto |-> NoneValue, augment |-> TRUE,
     return_aux_data |-> FALSE, force_recompute |-> FALSE]

LoadRecords ==
    {LoadRecord(<<100, 5000, 9000>>, <<5003>>, <<98>>),
     LoadRecord(<<100, 5000, 9000>>, <<5003, 7000>>, <<98, 5030>>)}

InitLoad ==
    /\ fn = "load_beat_ann"
    /\ args \in LoadRecords
    /\ pc = "idle"
    /\ tasks = <<>>
    /\ status = <<>>
    /\ result = <<>>
    /\ finished = [n |-> 0, overtook |-> FALSE]
    /\ poolError = FALSE
    /\ poolStarted = FALSE
    /\ ret = NoRet
    /\ files = {}
    /\ heap = CallerObjects

NextLoad ==
    \/ \E sf \in SampFroms, st \in SampTos, aug \in BOOLEAN, aux \in BOOLEAN :
          LoadCached(sf, st, aug, aux)
    \/ \E sf \in SampFroms, st \in SampTos, aug \in BOOLEAN, aux \in BOOLEAN,
          force \in BOOLEAN :
          LoadRecompute(sf, st, aug, aux, force)

SpecLoad == InitLoad /\ [][NextLoad]_vars

(***************************************************************************)
(* Properties.                                                             *)
(***************************************************************************)
IsPre == fn = "parallel_preprocess_signal"

IsAnn == fn = "_ann_to_beat_ann"

ELen == epoch_len(MergedCfg, args.fs)

Half == epoch_overlap_half(MergedCfg, args.fs)

StrictlyIncreasing(s) == \A i \in 1..(Len(s) - 1) : s[i] < s[i + 1]

NonDecreasing(s) == \A i \in 1..(Len(s) - 1) : s[i] <= s[i + 1]

\* preprocess_signal run once on the whole signal, the detector not failing
WholeSignal == preprocess_signal(RawEcg, args.fs, MergedCfg, args.beats, FALSE)

AwayFromEnds(s) == SelectSeq(s, LAMBDA p : p >= Half /\ p < args.n - Half)

\* C1  Chunking equivalence: for a signal longer than 3 x epoch_len and the
\* detector that reports the planted beats of the buffer it is handed,
\* parallel_preprocess_signal returns the beat locations preprocess_signal
\* returns on the whole signal, except within half_overlap samples of the
\* two global ends.  Stated for the default tail policy (tail kept).
ChunkingEquivalence ==
    (IsPre /\ pc = "done" /\ args.n > 3 * ELen /\ MergedCfg.parallel_keep_tail)
        => AwayFromEnds(ret.rpeaks) = AwayFromEnds(WholeSignal.rpeaks)

\* C6  Length preservation: with the input rate equal to the target rate
\* the filtered signal has as many samples as the input, for every epoch
\* length, every even overlap below it and both values of
\* parallel_keep_tail.
LengthPreservation ==
    (IsPre /\ pc = "done" /\ args.fs = MergedCfg.fs)
        => SigLen(ret.filtered_ecg) = args.n

\* C7  Beat Sequence invariant: with a detector that returns strictly
\* increasing in-window indices, the beat list parallel_preprocess_signal
\* returns is strictly increasing (hence free of duplicates), whatever the
\* signal length and parallel_keep_tail.
BeatSequenceInvariant ==
    (IsPre /\ pc = "done") => StrictlyIncreasing(ret.rpeaks)

BeatSequenceWitness ==
    /\ IsPre /\ pc = "done" /\ poolStarted
    /\ MergedCfg.parallel_keep_tail /\ Half > 0
    /\ Len(ret.rpeaks) > ELen

\* the tasks of the call and their values, computed one after the other
SequentialTasks ==
    IF IsPre THEN l_epoch(RawEcg, MergedCfg, args.fs) ELSE EpochParams.params

SequentialResults == [t \in 1..Len(SequentialTasks) |-> RunTaskOn(SequentialTasks[t], t)]

SequentialOutcomes ==
    IF IsPre
    THEN {RetPre(Stitch(SequentialResults, MergedCfg, args.fs))}
    ELSE {RetAnn(Augmented(args.rpeaks, args.ann, SequentialResults, order,
                           args.beat_winL, args.beat_winR, args.sig_len),
                 args.return_aux_data) :
            order \in ArgSorts(args.rpeaks
                               \o AnnNotMatched(args.ann, SequentialResults, "SPB_indices")
                               \o AnnNotMatched(args.ann, SequentialResults, "PVC_indices"))}

\* C8  Worker-count invariance: whatever the pool size and the order in
\* which tasks finish, the list starmap returns holds the value of task t at
\* position t, and the result of the call is the one obtained by computing
\* the windows (epochs) one after the other.
WorkerCountInvariance ==
    /\ (pc = "starmap" /\ AllDone) =>
           \A t \in 1..NTasks : result[t] = SequentialResults[t]
    /\ (pc = "done" /\ poolStarted) => ret \in SequentialOutcomes

WorkerCountWitness ==
    /\ pc = "done" /\ poolStarted
    /\ cpu_num(args.cpu_count) > 1
    /\ finished.overtook

\* C9  Fail-fast: once a window or an epoch has failed the call never
\* returns a value and writes no file; a call that raised has returned
\* nothing and written nothing.
FailFast ==
    /\ poolError => (pc # "done" /\ ret = NoRet /\ files = {})
    /\ pc = "raised" => (ret = NoRet /\ files = {})

FailFastWitness ==
    /\ pc = "raised" /\ poolError
    /\ NTasks >= 2 /\ finished.n = NTasks

\* C10  Short-signal delegation: a signal of at most 3 x epoch_len samples
\* starts no pool and yields what preprocess_signal yields for the same
\* signal, rate and merged configuration; 3 x epoch_len + 1 samples are
\* chunked.
ShortSignalDelegation ==
    IsPre =>
        LET whole == preprocess_signal(RawEcg, args.fs, MergedCfg, args.beats,
                                       args.fault = 1)
        IN  /\ (args.n <= 3 * ELen /\ pc = "done") =>
                   (~poolStarted /\ tasks = <<>> /\ whole.raised = ""
                    /\ ret = RetPre(whole))
            /\ (args.n <= 3 * ELen /\ pc = "raised") =>
                   (~poolStarted /\ whole.raised # "")
            /\ (args.n = 3 * ELen + 1 /\ pc # "call") =>
                   (poolStarted /\ Len(tasks) >= 2)

ShortSignalWitness ==
    /\ IsPre /\ pc = "done" /\ ret.returned
    /\ args.n = 3 * ELen /\ Len(ret.rpeaks) > 0

(***************************************************************************)
(* Properties of the matcher.                                              *)
(***************************************************************************)
Classes == {"SPB_indices", "PVC_indices"}

LabelOf(k) == IF k = "SPB_indices" THEN "S" ELSE "V"

\* the annotations of class k some worker reported as matched
MatchedSet(k) == UNION {SeqToSet(result[t].ann_matched[k]) : t \in DOMAIN result}

InMargins(x) == x >= args.beat_winL /\ x < args.sig_len - args.beat_winR

\* number of entries of the returned lists with location x and label lab
CountOut(x, lab) ==
    Cardinality({i \in 1..Len(ret.rpeaks) : ret.rpeaks[i] = x /\ ret.beat_ann[i] = lab})

\* the labels the workers gave to the beats of R, in the order of R
WorkerLabels == NpConcatenate([t \in 1..NTasks |-> result[t].beat_ann])

\* number of beats of R at location x that the workers labelled lab
CountBeats(x, lab) ==
    Cardinality({i \in 1..Len(args.rpeaks) : args.rpeaks[i] = x /\ WorkerLabels[i] = lab})

UnmatchedInMargins(k) ==
    {a \in SeqToSet(args.ann[k]) : a \notin MatchedSet(k) /\ InMargins(a)}

AugmentedCallDone == IsAnn /\ pc = "done" /\ args.augment

\* C2  Matching completeness, as claimed: after _ann_to_beat_ann with
\* augmentation every SPB and PVC index is either in the matched set of its
\* class or occurs exactly once in the returned locations with its label.
MatchingCompleteness ==
    AugmentedCallDone =>
        \A k \in Classes : \A a \in SeqToSet(args.ann[k]) :
            a \in MatchedSet(k) \/ CountOut(a, LabelOf(k)) = 1

\* C2 (amended)  The same for the annotation indices that lie inside the
\* margins, left_margin <= a < len(signal) - right_margin: such an index is
\* matched, or it is inserted exactly once with its label; and the returned
\* list holds the beats inside the margins and the unmatched annotations
\* inside the margins, nothing else.
MatchingCompletenessInMargins ==
    AugmentedCallDone =>
        /\ \A k \in Classes : \A a \in SeqToSet(args.ann[k]) :
              InMargins(a) =>
                 /\ a \notin MatchedSet(k) => CountOut(a, LabelOf(k)) = 1
                 /\ a \in MatchedSet(k) => CountOut(a, LabelOf(k)) <= 1
        /\ Len(ret.rpeaks) =
              Cardinality({i \in 1..Len(args.rpeaks) : InMargins(args.rpeaks[i])})
              + Cardinality(UnmatchedInMargins("SPB_indices"))
              + Cardinality(UnmatchedInMargins("PVC_indices"))

MatchingCompletenessWitness ==
    /\ AugmentedCallDone
    /\ MatchedSet("SPB_indices") # {}
    /\ UnmatchedInMargins("PVC_indices") # {}

\* distance from r to the nearest annotation of a sequence (Inf if none)
Nearest(r, a) == SeqMin(DistTo(r, a))

V3Done(t) == IsAnn /\ args.augment /\ t \in DOMAIN result /\ result[t].raised = ""

\* C3  Tolerance boundary is open: a beat whose nearest annotation of
\* either class is exactly bias_thr away is labelled N and nothing is
\* matched for it; a beat at bias_thr - 1 gets that annotation's class.
ToleranceBoundaryOpen ==
    \A t \in 1..NTasks : V3Done(t) =>
        \A i \in 1..Len(tasks[t].rpeaks) :
            LET r == tasks[t].rpeaks[i]
                d == Min(Nearest(r, tasks[t].ann.SPB_indices),
                         Nearest(r, tasks[t].ann.PVC_indices))
            IN  /\ d = args.bias_thr => result[t].beat_ann[i] = "N"
                /\ d = args.bias_thr - 1 => result[t].beat_ann[i] # "N"

\* the beats of task t labelled lab, in order
Labelled(t, lab) ==
    SelectSeq(tasks[t].rpeaks,
              LAMBDA r : \E i \in 1..Len(tasks[t].rpeaks) :
                            tasks[t].rpeaks[i] = r /\ result[t].beat_ann[i] = lab)

\* C4  Nearest-with-priority: a beat with an annotation strictly closer than
\* bias_thr is labelled V exactly when its nearest PVC is strictly closer
\* than its nearest SPB, and S otherwise; what is appended to ann_matched is
\* a nearest annotation of the chosen class.  R = [100, 5000, 9000],
\* SPB = [5003], PVC = [98], bias_thr = 10 gives [V, S, N] and
\* ann_matched = {SPB: [5003], PVC: [98]}.
NearestWithPriority ==
    /\ \A t \in 1..NTasks : V3Done(t) =>
          /\ \A i \in 1..Len(tasks[t].rpeaks) :
                LET r == tasks[t].rpeaks[i]
                    ds == Nearest(r, tasks[t].ann.SPB_indices)
                    dv == Nearest(r, tasks[t].ann.PVC_indices)
                IN  (ds < args.bias_thr \/ dv < args.bias_thr) =>
                        result[t].beat_ann[i] = IF dv < ds THEN "V" ELSE "S"
          /\ \A k \in Classes :
                LET m == result[t].ann_matched[k]
                    b == Labelled(t, LabelOf(k))
                IN  /\ Len(m) = Len(b)
                    /\ \A j \in 1..Len(m) :
                          /\ m[j] \in SeqToSet(tasks[t].ann[k])
                          /\ Abs(b[j] - m[j]) = Nearest(b[j], tasks[t].ann[k])
    /\ (IsAnn /\ args = ScenarioMatched /\ pc = "done") =>
          /\ ret.beat_ann = <<"V", "S", "N">>
          /\ ret.rpeaks = <<100, 5000, 9000>>
          /\ result[1].ann_matched = [SPB_indices |-> <<5003>>, PVC_indices |-> <<98>>]

NearestWithPriorityWitness ==
    /\ IsAnn /\ pc = "done" /\ args.augment /\ NTasks = 1
    /\ \E i \in 1..Len(tasks[1].rpeaks) :
          /\ Nearest(tasks[1].rpeaks[i], tasks[1].ann.SPB_indices) < args.bias_thr
          /\ Nearest(tasks[1].rpeaks[i], tasks[1].ann.SPB_indices)
               = Nearest(tasks[1].rpeaks[i], tasks[1].ann.PVC_indices)
          /\ result[1].beat_ann[i] = "S"

\* C5  Unmatched recovery: the unmatched SPB indices come back with label S
\* and the unmatched PVC indices with label V, the returned locations are
\* sorted and every location keeps its label, and the returned list has
\* len(R) plus the number of unmatched annotations entries when all
\* locations are inside the margins.  R = [100, 9000], SPB = [5000],
\* bias_thr = 10 gives [100, 5000, 9000] with [N, S, N].
UnmatchedRecovery ==
    /\ AugmentedCallDone =>
          /\ NonDecreasing(ret.rpeaks)
          /\ \A x \in 0..(args.sig_len - 1) :
                InMargins(x) =>
                    /\ CountOut(x, "N") = CountBeats(x, "N")
                    /\ \A k \in Classes :
                          CountOut(x, LabelOf(k)) =
                              CountBeats(x, LabelOf(k))
                              + (IF x \in UnmatchedInMargins(k) THEN 1 ELSE 0)
          /\ (\A x \in SeqToSet(args.rpeaks) \cup SeqToSet(args.ann.SPB_indices)
                        \cup SeqToSet(args.ann.PVC_indices) : InMargins(x))
                => Len(ret.rpeaks) = Len(args.rpeaks)
                                     + Cardinality(UnmatchedInMargins("SPB_indices"))
                                     + Cardinality(UnmatchedInMargins("PVC_indices"))
    /\ (IsAnn /\ args = ScenarioUnmatched /\ pc = "done") =>
          /\ ret.rpeaks = <<100, 5000, 9000>>
          /\ ret.beat_ann = <<"N", "S", "N">>

UnmatchedRecoveryWitness ==
    /\ IsAnn /\ pc = "done" /\ args = ScenarioUnmatched
    /\ ret.rpeaks = <<100, 5000, 9000>>

(***************************************************************************)
(* Properties of the stitching.                                            *)
(***************************************************************************)
FiltersDisabled == IsPre /\ MergedCfg.preprocess = <<>> /\ args.fs = MergedCfg.fs

\* C11  Identity when filters are disabled: with baseline removal and
\* bandpass off and no resampling, preprocess_signal returns the input
\* samples unchanged, and so does parallel_preprocess_signal with the tail
\* kept and 2 <= epoch_overlap < epoch_len: the retained spans of the
\* windows cover every input index once and in order.
IdentityWhenFiltersDisabled ==
    (FiltersDisabled /\ pc = "done") =>
        /\ WholeSignal.filtered_ecg = RawEcg
        /\ ~poolStarted => ret.filtered_ecg = RawEcg
        /\ (poolStarted /\ MergedCfg.parallel_keep_tail /\ 2 * Half >= 2
               /\ 2 * Half < ELen)
              => ret.filtered_ecg = RawEcg

IdentityWitness ==
    /\ FiltersDisabled /\ pc = "done" /\ poolStarted
    /\ MergedCfg.parallel_keep_tail /\ Half > 0
    /\ NTasks >= 4 /\ ret.filtered_ecg = RawEcg

InRange(s, n) == \A i \in 1..Len(s) : 0 <= s[i] /\ s[i] < n

\* C12  Index range: every beat location parallel_preprocess_signal returns
\* is a sample index of the signal, 0 <= location < len(signal), the
\* detector reporting only indices inside the window it is given.
IndexRange ==
    (IsPre /\ pc = "done") => InRange(ret.rpeaks, args.n)

\* the beats window t detected inside its retained span: [0, epoch_len -
\* half) for the first window, [half, epoch_len - half) for an interior
\* one, [half, end) for the last
RetainedBeats(t) ==
    SelectSeq(result[t].rpeaks,
              LAMBDA p : (t = 1 \/ p >= Half) /\ (t = NTasks \/ p < ELen - Half))

\* C13  Per-window beat retention: every window, the last or extended-tail
\* window included, contributes exactly its own detected beats that lie in
\* its retained span, translated by the window's starting offset.  Stated
\* for the tail kept.
PerWindowRetention ==
    (IsPre /\ pc = "done" /\ poolStarted /\ MergedCfg.parallel_keep_tail) =>
        ret.rpeaks =
            NpConcatenate([t \in 1..NTasks |->
                Shift(RetainedBeats(t), (t - 1) * epoch_forward(MergedCfg, args.fs))])

(***************************************************************************)
(* Properties of the epochs of the matcher.                                *)
(***************************************************************************)
\* one run of v3 over all of R with the full annotation sets
V3Whole == _ann_to_beat_ann_epoch_v3(args.rpeaks, args.ann, args.bias_thr)

\* C14  Epoch partition does not change matching: when _ann_to_beat_ann
\* with augmentation completes, the labels and the matched annotations the
\* epochs produced, taken in epoch order, are those of one run of v3 over
\* all of R with the full annotation sets.
EpochPartitionEquivalence ==
    AugmentedCallDone =>
        /\ WorkerLabels = V3Whole.beat_ann
        /\ \A k \in Classes : AnnMatched(ResultList, k) = V3Whole.ann_matched[k]

\* two epochs, the first matching an annotation that lies past its last beat
EpochPartitionWitness ==
    /\ AugmentedCallDone /\ NTasks >= 2
    /\ \E k \in Classes : \E a \in SeqToSet(result[1].ann_matched[k]) :
           a > tasks[1].rpeaks[Len(tasks[1].rpeaks)]

\* annotation a of class k is the one v3 picks for beat r: class k wins the
\* three-way minimum strictly inside the tolerance and a is its only
\* nearest annotation
PicksAnnotation(r, k, a) ==
    LET ds == Nearest(r, args.ann.SPB_indices)
        dv == Nearest(r, args.ann.PVC_indices)
        d == Abs(r - a)
    IN  /\ d < args.bias_thr
        /\ IF k = "SPB_indices" THEN d = ds /\ ds <= dv ELSE d = dv /\ dv < ds
        /\ \A x \in SeqToSet(args.ann[k]) : Abs(r - x) = d => x = a

\* C15  Annotation reuse: when two different beats both have annotation a
\* as the one v3 picks, both get a's label, a is matched, and the
\* augmentation does not insert a as an additional beat.
AnnotationReuse ==
    AugmentedCallDone =>
        \A k \in Classes : \A a \in SeqToSet(args.ann[k]) :
            \A i, j \in 1..Len(args.rpeaks) :
                (i # j /\ PicksAnnotation(args.rpeaks[i], k, a)
                       /\ PicksAnnotation(args.rpeaks[j], k, a)) =>
                    /\ WorkerLabels[i] = LabelOf(k)
                    /\ WorkerLabels[j] = LabelOf(k)
                    /\ a \in MatchedSet(k)
                    /\ CountOut(a, LabelOf(k)) =
                          IF InMargins(a) THEN CountBeats(a, LabelOf(k)) ELSE 0

AnnotationReuseWitness ==
    /\ AugmentedCallDone
    /\ \E k \in Classes : \E a \in SeqToSet(args.ann[k]) :
           \E i, j \in 1..Len(args.rpeaks) :
               /\ i # j /\ InMargins(a)
               /\ PicksAnnotation(args.rpeaks[i], k, a)
               /\ PicksAnnotation(args.rpeaks[j], k, a)

(***************************************************************************)
(* Properties of the list _ann_to_beat_ann returns.                        *)
(***************************************************************************)
\* C16  The augmented beat sequence is a valid Beat Sequence: for strictly
\* increasing R and duplicate-free SPB and PVC (which may share indices)
\* the returned location list is sorted ascending and holds no index
\* twice.
AugmentedIsBeatSequence ==
    (AugmentedCallDone /\ StrictlyIncreasing(args.rpeaks))
        => StrictlyIncreasing(ret.rpeaks)

\* the location and label lists before the margin filter, sorted with `order`
SortedLists(order) ==
    LET nmS == AnnNotMatched(args.ann, ResultList, "SPB_indices")
        nmV == AnnNotMatched(args.ann, ResultList, "PVC_indices")
    IN  [locs |-> TakeAt(args.rpeaks \o nmS \o nmV, order),
         labs |-> TakeAt(AugmentedLabels(ResultList, Len(nmS), Len(nmV)), order)]

SortOrders ==
    ArgSorts(args.rpeaks \o AnnNotMatched(args.ann, ResultList, "SPB_indices")
                         \o AnnNotMatched(args.ann, ResultList, "PVC_indices"))

\* C17  Margin filter in lockstep: every returned location satisfies
\* left_margin <= location < len(signal) - right_margin, the label list is
\* as long as the location list, and the two lists are the sorted lists
\* with the same positions removed, so a retained location keeps its label.
MarginLockstep ==
    (IsAnn /\ pc = "done") =>
        /\ \A i \in 1..Len(ret.rpeaks) : InMargins(ret.rpeaks[i])
        /\ Len(ret.beat_ann) = Len(ret.rpeaks)
        /\ \E order \in SortOrders :
              LET l == SortedLists(order)
                  kept == SelectSeq([i \in 1..Len(l.locs) |-> i],
                                    LAMBDA i : InMargins(l.locs[i]))
              IN  /\ ret.rpeaks = [i \in 1..Len(kept) |-> l.locs[kept[i]]]
                  /\ ret.beat_ann = [i \in 1..Len(kept) |-> l.labs[kept[i]]]

MarginLockstepWitness ==
    /\ IsAnn /\ pc = "done"
    /\ \E i \in 1..Len(args.rpeaks) : ~InMargins(args.rpeaks[i])
    /\ Len(ret.rpeaks) >= 2 /\ ret.beat_ann[1] # ret.beat_ann[2]

\* C18  A beat sequence that is not strictly increasing is rejected by
\* _ann_to_beat_ann before any epoch is formed or any beat is matched: no
\* task is handed to the pool, no label is produced, nothing is returned
\* and no file is written.
RejectsUnsorted ==
    (IsAnn /\ ~StrictlyIncreasing(args.rpeaks)) =>
        /\ pc \in {"call", "raised"}
        /\ tasks = <<>> /\ result = <<>>
        /\ ret = NoRet /\ files = {}

\* C19  Only the v3 policy labels beats: whether augmentation is requested
\* or not, the label _ann_to_beat_ann gives each input beat is the one of
\* the v3 nearest-with-priority rule.
OnlyV3Labels ==
    (IsAnn /\ pc = "done") => WorkerLabels = V3Whole.beat_ann

(***************************************************************************)
(* Properties of the configuration.                                        *)
(***************************************************************************)
UnknownDetector ==
    IsPre /\ MergedCfg.rpeaks # "" /\ Lower(MergedCfg.rpeaks) \notin QRS_DETECTORS

\* C20  An unknown peak-detector name makes preprocess_signal and
\* parallel_preprocess_signal fail before any processing starts: when the
\* error is raised no resampling, baseline or bandpass stage has run, and
\* no worker pool is ever started.
UnknownDetectorFailsEarly ==
    UnknownDetector =>
        /\ WholeSignal.raised # "" /\ WholeSignal.log = <<>>
        /\ pc \in {"call", "raised"}
        /\ ~poolStarted /\ tasks = <<>>
        /\ \A t \in DOMAIN result : result[t].log = <<>>

(***************************************************************************)
(* Properties of the stages of preprocess_signal.                          *)
(***************************************************************************)
\* every value preprocess_signal has produced in the call: the one of the
\* whole signal and the ones the workers returned
PreprocessValues ==
    {WholeSignal} \cup {result[t] : t \in DOMAIN result}

EnabledFilters(cfg, fs) ==
    (IF fs # cfg.fs THEN <<"resample">> ELSE <<>>)
        \o (IF "baseline" \in SeqToSet(cfg.preprocess) THEN <<"baseline">> ELSE <<>>)
        \o (IF "bandpass" \in SeqToSet(cfg.preprocess) THEN <<"bandpass">> ELSE <<>>)

DetectorEnabled(cfg) == cfg.rpeaks # "" /\ Lower(cfg.rpeaks) \in QRS_DETECTORS

Fwd == epoch_forward(MergedCfg, args.fs)

\* the number of windows of epoch_len samples, Fwd apart, that fit
FullWindows == Cardinality({i \in 0..(args.n \div Fwd) : i * Fwd + ELen <= args.n})

\* the samples left after the last of them
Remaining == args.n - ((FullWindows - 1) * Fwd + ELen)

\* the windows, each a range of raw samples, leave no sample out: the
\* first starts at sample 0, each of the others starts no later than the
\* one before it ends, and the last ends with the signal
CoversSignal(ws, n) ==
    /\ ws # <<>>
    /\ \A t \in 1..Len(ws) : Len(ws[t]) = 1 /\ ws[t][1].stages = <<>>
    /\ ws[1][1].lo = 0
    /\ \A t \in 1..(Len(ws) - 1) : ws[t + 1][1].lo <= ws[t][1].hi
    /\ ws[Len(ws)][1].hi = n

\* C22  Tail policy (tail kept, signal longer than 3 x epoch_len): the
\* regular windows have epoch_len samples each and start epoch_len -
\* epoch_overlap apart; fewer than 30 s of remaining samples are appended
\* to the last regular window and no window is added, 30 s or more give
\* one extra window that starts epoch_overlap samples before the end of the
\* last regular window; the windows together hold every sample.
TailPolicy ==
    (IsPre /\ poolStarted /\ MergedCfg.parallel_keep_tail) =>
        /\ \A t \in 1..(FullWindows - 1) :
               tasks[t] = RawSlice((t - 1) * Fwd, (t - 1) * Fwd + ELen)
        /\ IF 10 * Remaining < 30 * args.fs
           THEN /\ NTasks = FullWindows
                /\ tasks[NTasks] = RawSlice((FullWindows - 1) * Fwd, args.n)
           ELSE /\ NTasks = FullWindows + 1
                /\ tasks[FullWindows] =
                       RawSlice((FullWindows - 1) * Fwd, (FullWindows - 1) * Fwd + ELen)
                /\ tasks[NTasks] =
                       RawSlice((FullWindows - 1) * Fwd + ELen - 2 * Half, args.n)
        /\ CoversSignal(tasks, args.n)

TailPolicyWitness ==
    /\ IsPre /\ pc = "done" /\ MergedCfg.parallel_keep_tail
    /\ Half > 0
    /\ NTasks = FullWindows + 1
    /\ Remaining > 0
    /\ SigLen(tasks[NTasks]) = Remaining + 2 * Half

(***************************************************************************)
(* Properties of resampling.                                               *)
(***************************************************************************)
\* round(len(signal) x target_rate / fs), target_rate the rate of the
\* configuration in effect
ResampledLen == PyRound(args.n * MergedCfg.fs, args.fs)

\* C23  Length after resampling: when the input rate differs from the
\* target rate of the configuration in effect, the filtered signal
\* preprocess_signal returns for the whole signal, and the one
\* parallel_preprocess_signal returns, have round(len(signal) x target_rate
\* / fs) samples.
LengthAfterResampling ==
    (IsPre /\ args.fs # MergedCfg.fs) =>
        /\ WholeSignal.raised = "" => SigLen(WholeSignal.filtered_ecg) = ResampledLen
        /\ pc = "done" => SigLen(ret.filtered_ecg) = ResampledLen

(***************************************************************************)
(* Properties of the pool.                                                 *)
(***************************************************************************)
\* C24  Fan-out/fan-in barrier: from the start of the pool until every
\* worker task of the call has completed, the coordinating process stays
\* in starmap: nothing is stitched, concatenated, augmented, returned or
\* saved, and the call has neither returned nor raised.  Workers do not
\* wait on one another: finishing a task is guarded by the task's own status
\* only, so a task finishes while an earlier one is still running.
FanInBarrier ==
    /\ (poolStarted /\ \E t \in 1..NTasks : status[t] # "done") =>
           /\ pc = "starmap"
           /\ ret = NoRet
           /\ files = {}
    /\ pc \in {"done", "raised"} => \A t \in 1..NTasks : status[t] = "done"

FanInBarrierWitness ==
    /\ pc = "starmap" /\ NTasks >= 3
    /\ \E t \in 1..NTasks : \E u \in 1..(t - 1) :
           status[t] = "done" /\ status[u] = "running"
    /\ \E t \in 1..NTasks : status[t] = "pending"
    /\ ret = NoRet /\ files = {}

(***************************************************************************)
(* Properties of the caller's objects.                                     *)
(***************************************************************************)
\* C25  No in-place mutation: at every point of a call, and so after it,
\* the caller's input signal, beat sequence, annotation sets and
\* configuration object, and the module-level default configuration, hold
\* the values they had when the call was made.
NoInPlaceMutation ==
    /\ heap.PreprocessCfg = PreprocessCfg
    /\ heap.config = CallerObjects.config
    /\ heap.raw_ecg = CallerObjects.raw_ecg
    /\ heap.rpeaks = CallerObjects.rpeaks
    /\ heap.ann = CallerObjects.ann

NoInPlaceMutationWitness ==
    /\ IsPre /\ pc = "done" /\ ~poolStarted
    /\ heap.cfg = MergedCfg /\ heap.cfg_inner = MergedCfg
    /\ MergedCfg # PreprocessCfg
    /\ heap.config = args.config /\ heap.PreprocessCfg = PreprocessCfg

(***************************************************************************)
(* Properties of the beat-annotation store.                                *)
(***************************************************************************)
\* C26  The save flag controls persistence: a call of _ann_to_beat_ann with
\* save False leaves the beat-annotation store as it was (empty, in the
\* model); the record's file is written only when save is True.
SaveFlagControlsPersistence ==
    (IsAnn /\ ~args.save) => files = {}

\* C27  load_beat_ann(rec, sampfrom, sampto, ...) returns the labels of the
\* beats of the requested range [sampfrom, sampto) of the record, whatever
\* calls were made before on the same record with other ranges.
LoadReturnsRequestedRange ==
    (fn = "load_beat_ann" /\ pc = "done") =>
        \E r \in RangeValues(args, args.sampfrom, args.sampto, args.augment) :
            r.raised = "" /\ ret = RetAnn(r, args.return_aux_data)

(***************************************************************************)
(* Properties of a call without peak detection.                            *)
(***************************************************************************)
\* the samples 0 .. n-1, each once and in order
Complete(sig, n) ==
    /\ sig # <<>>
    /\ sig[1].lo = 0
    /\ \A i \in 1..(Len(sig) - 1) : sig[i + 1].lo = sig[i].hi
    /\ sig[Len(sig)].hi = n

SplitOfCall == split_indices(args.rpeaks, args.bias_thr, args.one_hour)

\* C29  The epoch split is total: for every non-empty strictly increasing
\* beat sequence, gaps of more than one hour included, every epoch holds at
\* least one beat, so the annotation windows are computed without failure
\* and the call goes on to hand the epochs to the pool.
EpochSplitTotal ==
    (IsAnn /\ args.rpeaks # <<>> /\ StrictlyIncreasing(args.rpeaks)) =>
        /\ \A idx \in 1..(Len(SplitOfCall) - 1) :
               EpochBeats(args.rpeaks, SplitOfCall, idx) # <<>>
        /\ pc # "call" => poolStarted

\* the label the epoch function of the call computes for one beat
LabelFor(r) ==
    IF args.augment
    THEN _ann_to_beat_ann_epoch_v3(<<r>>, args.ann, args.bias_thr).beat_ann[1]
    ELSE _ann_to_beat_ann_epoch_v1(<<r>>, args.ann, args.bias_thr).beat_ann[1]

\* C30  The epochs partition the beat sequence: in a call on a strictly
\* increasing R that gets as far as the pool (bias_thr below one hour of
\* samples), the epochs are
\* consecutive non-empty slices of R whose concatenation is R; when the
\* workers have returned, the concatenated label array has len(R) entries
\* and entry i is the label computed for R[i].
EpochsPartitionBeats ==
    (IsAnn /\ poolStarted /\ args.bias_thr < args.one_hour
          /\ StrictlyIncreasing(args.rpeaks)) =>
        /\ NpConcatenate([t \in 1..NTasks |-> tasks[t].rpeaks]) = args.rpeaks
        /\ \A t \in 1..NTasks :
               /\ tasks[t].rpeaks # <<>>
               /\ tasks[t].rpeaks = PySeqSlice(args.rpeaks, SplitOfCall[t], SplitOfCall[t + 1])
        /\ (pc = "done") =>
               /\ Len(WorkerLabels) = Len(args.rpeaks)
               /\ \A i \in 1..Len(args.rpeaks) : WorkerLabels[i] = LabelFor(args.rpeaks[i])

EpochsPartitionWitness ==
    /\ IsAnn /\ pc = "done" /\ NTasks >= 2
    /\ Len(WorkerLabels) = Len(args.rpeaks)
    /\ WorkerLabels[1] # WorkerLabels[Len(WorkerLabels)]

====
